---- MODULE Spec2Model ----
(***************************************************************************)
(* The autograd / nn / optim usage of the pytorch-examples notebooks as a  *)
(* state machine.  A state is a notebook session: the leaf Variables with  *)
(* their data and grad buffers, the operation graph the last forward pass  *)
(* recorded, the optimizer's running averages, and, for the training      *)
(* loops, the position in the loop body.                                   *)
(* Tensor entries are exact rationals <<numerator, denominator>>; tensors  *)
(* are flattened sequences of entries.                                     *)
(***************************************************************************)
EXTENDS Integers, Sequences, FiniteSets, TLC

VARIABLES nb, leaf, opt, tape, root, pc, iter, hist

vars == <<nb, leaf, opt, tape, root, pc, iter, hist>>

\* ------------------------------------------------------------------------
\* Bounds of the model
\* ------------------------------------------------------------------------
MaxBack == 2
MaxIter == 2
MaxSteps == 2
MaxAbs == 3
MaxDen == 100

\* ------------------------------------------------------------------------
\* Exact arithmetic on tensor entries
\* ------------------------------------------------------------------------
None == <<>>

Abs(n) == IF n < 0 THEN -n ELSE n

RECURSIVE GCD(_, _)
GCD(a, b) == IF b = 0 THEN a ELSE GCD(b, a % b)

Norm(n, d) ==
  LET g == GCD(Abs(n), d) IN <<n \div g, d \div g>>

R(n) == <<n, 1>>

RAdd(a, b) ==
  LET g == GCD(a[2], b[2])
      l == (a[2] \div g) * b[2]
  IN Norm(a[1] * (l \div a[2]) + b[1] * (l \div b[2]), l)

RNeg(a) == <<-a[1], a[2]>>

RSub(a, b) == RAdd(a, RNeg(b))

RMul(a, b) ==
  LET g1 == GCD(Abs(a[1]), b[2])
      g2 == GCD(Abs(b[1]), a[2])
  IN <<(a[1] \div g1) * (b[1] \div g2), (a[2] \div g2) * (b[2] \div g1)>>

RDivInt(a, n) == RMul(a, <<1, n>>)

RMax0(a) == IF a[1] < 0 THEN R(0) ELSE a

\* ------------------------------------------------------------------------
\* Tensors: flattened sequences of entries
\* ------------------------------------------------------------------------
Fill(n, v) == [i \in 1..n |-> v]

TAdd(s, t) == [i \in 1..Len(s) |-> RAdd(s[i], t[i])]

TSub(s, t) == [i \in 1..Len(s) |-> RSub(s[i], t[i])]

TMul(s, t) == [i \in 1..Len(s) |-> RMul(s[i], t[i])]

TScale(s, c) == [i \in 1..Len(s) |-> RMul(s[i], c)]

TShift(s, c) == [i \in 1..Len(s) |-> RAdd(s[i], c)]

RECURSIVE TSumFrom(_, _)
TSumFrom(s, i) == IF i > Len(s) THEN R(0) ELSE RAdd(s[i], TSumFrom(s, i + 1))

TSum(s) == TSumFrom(s, 1)

\* a variant of TMean that does not divide by the number of entries
TMeanUndivided(s) == TSum(s)

TMean(s) == RDivInt(TSum(s), Len(s))

TZeros(s) == Fill(Len(s), R(0))

IsZeros(s) == \A i \in 1..Len(s) : s[i] = R(0)

\* ------------------------------------------------------------------------
\* Variables (graph nodes) and recorded Operations
\*   a reference is <<"leaf", name>> or <<"op", index into the tape>>
\*   leaf[name] = [data, grad, requires_grad]; grad = None until a backward
\*   pass reaches the leaf
\* ------------------------------------------------------------------------
LeafRef(name) == <<"leaf", name>>

OpRef(i) == <<"op", i>>

Variable(data, requires_grad) ==
  [data |-> data, grad |-> None, requires_grad |-> requires_grad]

\* a variant of Val that reads a leaf's gradient buffer when there is one
ValOrGrad(tp, lf, r) ==
  IF r[1] = "leaf"
    THEN IF lf[r[2]].grad = None THEN lf[r[2]].data ELSE lf[r[2]].grad
    ELSE tp[r[2]].out

Val(tp, lf, r) == IF r[1] = "leaf" THEN lf[r[2]].data ELSE tp[r[2]].out

\* variants of NeedsGrad: every Node asks for a gradient, none does
NeedsGradAlways(tp, lf, r) == TRUE

NeedsGradNever(tp, lf, r) == FALSE

NeedsGrad(tp, lf, r) ==
  IF r[1] = "leaf" THEN lf[r[2]].requires_grad ELSE tp[r[2]].requires_grad

\* natural logarithm, exact where the model needs it
Ln(a) == CASE a = R(1) -> R(0)

\* forward function of every operation the notebooks apply to Variables.
\* "Net" stands for the whole convolutional network (Net, Network): a
\* function of the input xs[1] and of every parameter, scaled by the
\* dropout factor c
Eval(fn, xs, c) ==
  CASE fn = "AddConst" -> TShift(xs[1], c)
    [] fn = "Mul"      -> TMul(xs[1], xs[2])
    [] fn = "MulConst" -> TScale(xs[1], c)
    [] fn = "Mean"     -> <<TMean(xs[1])>>
    [] fn = "Addmm"    -> TAdd(xs[1], TMul(xs[2], xs[3]))
    [] fn = "Mm"       -> TMul(xs[1], xs[2])
    [] fn = "Clamp"    -> [i \in 1..Len(xs[1]) |-> RMax0(xs[1][i])]
    [] fn = "MyReLU"   -> [i \in 1..Len(xs[1]) |-> RMax0(xs[1][i])]
    [] fn = "Sub"      -> TSub(xs[1], xs[2])
    [] fn = "Pow2"     -> TMul(xs[1], xs[1])
    [] fn = "Sum"      -> <<TSum(xs[1])>>
    [] fn = "MSELoss"  -> <<TMean(TMul(TSub(xs[1], xs[2]), TSub(xs[1], xs[2])))>>
    [] fn = "KLDivLoss" ->
         <<TMean([i \in 1..Len(xs[1]) |->
                    RMul(xs[2][i], RSub(Ln(xs[2][i]), xs[1][i]))])>>
    [] fn = "Net"      ->
         <<RMul(c, TSum([j \in 1..Len(xs) - 1 |-> RMul(xs[j + 1][1], xs[1][1])]))>>

\* backward function: the gradient for each input, given the gradient g of
\* the output and the inputs xs saved by the forward pass
VJP(fn, xs, c, g) ==
  CASE fn = "AddConst" -> <<g>>
    [] fn = "Mul"      -> <<TMul(g, xs[2]), TMul(g, xs[1])>>
    [] fn = "MulConst" -> <<TScale(g, c)>>
    [] fn = "Mean"     -> <<Fill(Len(xs[1]), RDivInt(g[1], Len(xs[1])))>>
    [] fn = "Addmm"    -> <<g, TMul(g, xs[3]), TMul(g, xs[2])>>
    [] fn = "Mm"       -> <<TMul(g, xs[2]), TMul(g, xs[1])>>
    [] fn = "Clamp"    -> <<[i \in 1..Len(g) |->
                              IF xs[1][i][1] < 0 THEN R(0) ELSE g[i]]>>
    [] fn = "MyReLU"   -> <<[i \in 1..Len(g) |->
                              IF xs[1][i][1] < 0 THEN R(0) ELSE g[i]]>>
    [] fn = "Sub"      -> <<g, TScale(g, R(-1))>>
    [] fn = "Pow2"     -> <<TMul(TScale(xs[1], R(2)), g)>>
    [] fn = "Sum"      -> <<Fill(Len(xs[1]), g[1])>>
    [] fn = "MSELoss"  -> <<TScale(TSub(xs[1], xs[2]),
                                   RMul(RDivInt(R(2), Len(xs[1])), g[1])),
                            TZeros(xs[2])>>
    [] fn = "KLDivLoss" ->
         <<[i \in 1..Len(xs[1]) |->
              RMul(RNeg(RDivInt(xs[2][i], Len(xs[1]))), g[1])],
           TZeros(xs[2])>>
    [] fn = "Net"      ->
         [j \in 1..Len(xs) |->
            IF j = 1 THEN TZeros(xs[1])
            ELSE <<RMul(RMul(c, xs[1][1]), g[1])>>]

\* a variant of Apply that keeps the graph of the previous call and goes on
\* recording after it
ApplyOnOld(tp, lf, fn, ins, c) ==
  LET xs == [j \in 1..Len(ins) |-> Val(tp, lf, ins[j])]
      t0 == IF tp = <<>> THEN tape ELSE tp
  IN Append(t0, [fn |-> fn, in |-> ins, xs |-> xs, c |-> c,
                 out |-> Eval(fn, xs, c),
                 requires_grad |->
                   \E j \in 1..Len(ins) : NeedsGrad(tp, lf, ins[j])])

\* applying an operation records it on the tape (the graph of this forward
\* pass); the result carries a grad_fn exactly when an input requires grad
Apply(tp, lf, fn, ins, c) ==
  LET xs == [j \in 1..Len(ins) |-> Val(tp, lf, ins[j])]
  IN Append(tp, [fn |-> fn, in |-> ins, xs |-> xs, c |-> c,
                 out |-> Eval(fn, xs, c),
                 requires_grad |->
                   \E j \in 1..Len(ins) : NeedsGrad(tp, lf, ins[j])])

Last(tp) == OpRef(Len(tp))

\* ------------------------------------------------------------------------
\* The backward pass
\* ------------------------------------------------------------------------
\* variants of Accumulate that drop a contribution
AccumulateKeep(old, g) == IF old = None THEN g ELSE old

AccumulateOverwrite(old, g) == g

\* gradients are accumulated into a buffer, not overwritten
Accumulate(old, g) == IF old = None THEN g ELSE TAdd(old, g)

\* hand the gradients gs of operation op to its inputs j..Len(op.in):
\* st = [gm |-> gradient of every tape entry so far, lf |-> the leaves]
RECURSIVE Distribute(_, _, _, _, _)
Distribute(tp, op, gs, j, st) ==
  IF j > Len(op.in) THEN st
  ELSE LET r == op.in[j]
           nxt ==
             IF ~NeedsGrad(tp, st.lf, r) THEN st
             ELSE IF r[1] = "op"
               THEN [st EXCEPT !.gm[r[2]] = Accumulate(@, gs[j])]
               ELSE [st EXCEPT !.lf[r[2]].grad = Accumulate(@, gs[j])]
       IN Distribute(tp, op, gs, j + 1, nxt)

\* visit the tape entries i, i-1, .., 1 (reverse creation order)
RECURSIVE Walk(_, _, _)
Walk(tp, i, st) ==
  IF i = 0 THEN st.lf
  ELSE IF st.gm[i] = None THEN Walk(tp, i - 1, st)
  ELSE Walk(tp, i - 1,
            Distribute(tp, tp[i], VJP(tp[i].fn, tp[i].xs, tp[i].c, st.gm[i]),
                       1, st))

\* a variant of DefaultSeed with another output gradient
DefaultSeedTwo(tp, lf, r) == Fill(Len(Val(tp, lf, r)), R(2))

\* grad_fn of a Node: None for a user-created leaf, otherwise the
\* backward function of the operation that created it, kept when the result
\* takes part in differentiation
GradFn(tp, r) ==
  IF r[1] = "leaf" THEN None
  ELSE IF tp[r[2]].requires_grad THEN <<tp[r[2]].fn, "Backward">> ELSE None

\* the operations the graph of r reaches by following input references
RECURSIVE AncestorOps(_, _)
AncestorOps(tp, r) ==
  IF r[1] = "leaf" THEN {}
  ELSE {r[2]} \cup
       UNION {AncestorOps(tp, tp[r[2]].in[j]) : j \in 1..Len(tp[r[2]].in)}

\* the leaves the graph of r reaches by following input references
RECURSIVE AncestorLeaves(_, _)
AncestorLeaves(tp, r) ==
  IF r[1] = "leaf" THEN {r[2]}
  ELSE UNION {AncestorLeaves(tp, tp[r[2]].in[j]) : j \in 1..Len(tp[r[2]].in)}

\* backward() without argument on a one-element root seeds the pass with 1.0
DefaultSeed(tp, lf, r) == Fill(Len(Val(tp, lf, r)), R(1))

\* the leaves after r.backward(seed)
Backward(tp, lf, r, seed) ==
  IF r[1] = "leaf"
    THEN [lf EXCEPT ![r[2]].grad = Accumulate(@, seed)]
    ELSE Walk(tp, r[2],
              [gm |-> [i \in 1..Len(tp) |-> IF i = r[2] THEN seed ELSE None],
               lf |-> lf])

\* ------------------------------------------------------------------------
\* The programs: the notebooks' networks, losses and update rules
\* ------------------------------------------------------------------------
Programs ==
  {"gradients", "nn_manual", "nn_adam", "nn_twolayer", "nn_dynamic",
   "autograd", "myrelu", "cnn_sgd", "cnn_adam", "operations"}

Sequentials == {"nn_manual", "nn_adam"}

Convnets == {"cnn_sgd", "cnn_adam"}

\* a variant of LoopBody that clears the gradients before the update
LoopBodyCleared(p) ==
  IF p \in {"gradients", "operations"} THEN <<>>
  ELSE <<"forward", "loss", "backward", "zero_grad", "step">>

\* order of the statements of a training-loop body
LoopBody(p) ==
  CASE p \in {"nn_manual", "nn_adam", "nn_twolayer", "nn_dynamic"} ->
         <<"forward", "loss", "zero_grad", "backward", "step">>
    [] p \in Convnets ->
         <<"zero_grad", "forward", "loss", "backward", "step">>
    [] p \in {"autograd", "myrelu"} ->
         <<"forward", "loss", "backward", "step", "zero_grad">>
    [] OTHER -> <<>>

\* the layers a module's constructor assigns, in assignment order, each with
\* the parameters the layer registers (weight, then bias)
Layers(p) ==
  CASE p \in Sequentials -> << <<"0.weight", "0.bias">>, <<"2.weight", "2.bias">> >>
    [] p \in Convnets    -> << <<"conv1.weight", "conv1.bias">>,
                               <<"conv2.weight", "conv2.bias">>,
                               <<"fc1.weight", "fc1.bias">>,
                               <<"fc2.weight", "fc2.bias">>,
                               <<"fc3.weight", "fc3.bias">> >>
    [] p = "nn_twolayer" -> << <<"linear1.weight", "linear1.bias">>,
                               <<"linear2.weight", "linear2.bias">> >>
    [] p = "nn_dynamic"  -> << <<"input_linear.weight", "input_linear.bias">>,
                               <<"middle_linear.weight", "middle_linear.bias">>,
                               <<"output_linear.weight", "output_linear.bias">> >>
    [] OTHER -> <<>>

\* the shapes of Network's parameters, from the constructor's arguments:
\* Conv2d(1, 6, 1), Conv2d(6, 16, 1), Linear(16 * 8 * 8, 120),
\* Linear(120, 84), Linear(84, 10)
Size(name) ==
  CASE name = "conv1.weight" -> <<6, 1, 1, 1>>
    [] name = "conv1.bias"   -> <<6>>
    [] name = "conv2.weight" -> <<16, 6, 1, 1>>
    [] name = "conv2.bias"   -> <<16>>
    [] name = "fc1.weight"   -> <<120, 16 * 8 * 8>>
    [] name = "fc1.bias"     -> <<120>>
    [] name = "fc2.weight"   -> <<84, 120>>
    [] name = "fc2.bias"     -> <<84>>
    [] name = "fc3.weight"   -> <<10, 84>>
    [] name = "fc3.bias"     -> <<10>>

\* a variant of parameters() that lists each layer's bias before its weight
ParametersBiasFirst(p) ==
  CASE p \in Sequentials -> <<"0.bias", "0.weight", "2.bias", "2.weight">>
    [] p \in Convnets    -> <<"conv1.bias", "conv1.weight", "conv2.bias",
                              "conv2.weight", "fc1.bias", "fc1.weight",
                              "fc2.bias", "fc2.weight", "fc3.bias", "fc3.weight">>
    [] p = "nn_twolayer" -> <<"linear1.bias", "linear1.weight",
                              "linear2.bias", "linear2.weight">>
    [] p = "nn_dynamic"  -> <<"input_linear.bias", "input_linear.weight",
                              "middle_linear.bias", "middle_linear.weight",
                              "output_linear.bias", "output_linear.weight">>
    [] p \in {"autograd", "myrelu"} -> <<"w1", "w2">>
    [] p = "gradients"   -> <<"x">>
    [] p = "operations"  -> <<>>

\* parameters(): the learnable leaves, in registration order
Parameters(p) ==
  CASE p \in Sequentials -> <<"0.weight", "0.bias", "2.weight", "2.bias">>
    [] p \in Convnets    -> <<"conv1.weight", "conv1.bias", "conv2.weight",
                              "conv2.bias", "fc1.weight", "fc1.bias",
                              "fc2.weight", "fc2.bias", "fc3.weight", "fc3.bias">>
    [] p = "nn_twolayer" -> <<"linear1.weight", "linear1.bias",
                              "linear2.weight", "linear2.bias">>
    [] p = "nn_dynamic"  -> <<"input_linear.weight", "input_linear.bias",
                              "middle_linear.weight", "middle_linear.bias",
                              "output_linear.weight", "output_linear.bias">>
    [] p \in {"autograd", "myrelu"} -> <<"w1", "w2">>
    [] p = "gradients"   -> <<"x">>
    [] p = "operations"  -> <<>>

Range(s) == {s[i] : i \in 1..Len(s)}

IsBias(name) ==
  name \in {"0.bias", "2.bias", "linear1.bias", "linear2.bias",
            "input_linear.bias", "middle_linear.bias", "output_linear.bias",
            "conv1.bias", "conv2.bias", "fc1.bias", "fc2.bias", "fc3.bias"}

\* learning rates
LearningRate(p) ==
  IF p \in {"autograd", "myrelu"} THEN <<1, 1000000>> ELSE <<1, 100>>

\* nn.Linear(in, out) applied to h: bias + h.mm(weight)
Linear(tp, lf, w, b, h) == Apply(tp, lf, "Addmm", <<LeafRef(b), h, LeafRef(w)>>, None)

RECURSIVE MiddleLayers(_, _, _)
MiddleLayers(tp, lf, k) ==
  IF k = 0 THEN tp
  ELSE LET t1 == Linear(tp, lf, "middle_linear.weight", "middle_linear.bias", Last(tp))
       IN MiddleLayers(Apply(t1, lf, "Clamp", <<Last(t1)>>, None), lf, k - 1)

\* F.dropout(x, p=0.5): a dropped unit is zero (k = 0), a kept one is
\* scaled by 1 / (1 - p) (k = 2); where the installed torch applies dropout
\* in training mode only, the unit passes unchanged (k = 1)
Dropout(k) == R(k)

\* the graph one forward pass records; k is the random draw of the call:
\* DynamicNet's random.randint(0, 3), Network's dropout mask
ForwardPass(p, lf, k) ==
  CASE p = "cnn_sgd" ->
         Apply(<<>>, lf, "Net",
               <<LeafRef("x")>> \o [j \in 1..Len(Parameters(p)) |-> LeafRef(Parameters(p)[j])],
               R(1))
    [] p = "cnn_adam" ->
         Apply(<<>>, lf, "Net",
               <<LeafRef("x")>> \o [j \in 1..Len(Parameters(p)) |-> LeafRef(Parameters(p)[j])],
               Dropout(k))
    [] p \in Sequentials ->
         LET t1 == Linear(<<>>, lf, "0.weight", "0.bias", LeafRef("x"))
             t2 == Apply(t1, lf, "Clamp", <<Last(t1)>>, None)
         IN Linear(t2, lf, "2.weight", "2.bias", Last(t2))
    [] p = "nn_twolayer" ->
         LET t1 == Linear(<<>>, lf, "linear1.weight", "linear1.bias", LeafRef("x"))
             t2 == Apply(t1, lf, "Clamp", <<Last(t1)>>, None)
         IN Linear(t2, lf, "linear2.weight", "linear2.bias", Last(t2))
    [] p = "nn_dynamic" ->
         LET t1 == Linear(<<>>, lf, "input_linear.weight", "input_linear.bias", LeafRef("x"))
             t2 == Apply(t1, lf, "Clamp", <<Last(t1)>>, None)
             t3 == MiddleLayers(t2, lf, k)
         IN Linear(t3, lf, "output_linear.weight", "output_linear.bias", Last(t3))
    [] p = "autograd" ->
         LET t1 == Apply(<<>>, lf, "Mm", <<LeafRef("x"), LeafRef("w1")>>, None)
             t2 == Apply(t1, lf, "Clamp", <<Last(t1)>>, None)
         IN Apply(t2, lf, "Mm", <<Last(t2), LeafRef("w2")>>, None)
    [] p = "myrelu" ->
         LET t1 == Apply(<<>>, lf, "Mm", <<LeafRef("x"), LeafRef("w1")>>, None)
             t2 == Apply(t1, lf, "MyReLU", <<Last(t1)>>, None)
         IN Apply(t2, lf, "Mm", <<Last(t2), LeafRef("w2")>>, None)
    [] p = "gradients" ->
         Apply(<<>>, lf, "AddConst", <<LeafRef("x")>>, R(2))

\* the loss appended to the graph of y_pred
LossPass(p, tp, lf) ==
  IF p = "gradients"
    THEN LET t1 == Apply(tp, lf, "Mul", <<Last(tp), Last(tp)>>, None)
             t2 == Apply(t1, lf, "MulConst", <<Last(t1)>>, R(3))
         IN Apply(t2, lf, "Mean", <<Last(t2)>>, None)
  ELSE IF p \in {"autograd", "myrelu"}
    THEN LET t1 == Apply(tp, lf, "Sub", <<Last(tp), LeafRef("y")>>, None)
             t2 == Apply(t1, lf, "Pow2", <<Last(t1)>>, None)
         IN Apply(t2, lf, "Sum", <<Last(t2)>>, None)
  ELSE IF p = "cnn_adam"
    THEN Apply(tp, lf, "KLDivLoss", <<Last(tp), LeafRef("y")>>, None)
    ELSE Apply(tp, lf, "MSELoss", <<Last(tp), LeafRef("y")>>, None)

HasLoss(tp) ==
  tp # <<>> /\ tp[Len(tp)].fn \in {"Sum", "MSELoss", "KLDivLoss", "Mean"}

\* variants of ZeroBuffer: one leaves the buffer as it is, one allocates
\* a buffer where there was none
ZeroBufferKeep(g) == g

ZeroBufferAlloc(g) == IF g = None THEN <<R(0)>> ELSE TZeros(g)

\* zero_grad(): a buffer that exists is zeroed; a grad that was never
\* computed stays None
ZeroBuffer(g) == IF g = None THEN None ELSE TZeros(g)

\* a variant of zero_grad that zeroes the first parameter's buffer only
ZeroGradOfFirst(p, lf) ==
  [n \in DOMAIN lf |->
     IF Parameters(p) # <<>> /\ n = Parameters(p)[1]
       THEN [lf[n] EXCEPT !.grad = ZeroBuffer(@)]
     ELSE lf[n]]

\* a variant of zero_grad that zeroes the parameter itself as well
ZeroGradOfData(p, lf) ==
  [n \in DOMAIN lf |->
     IF n \in Range(Parameters(p))
       THEN [lf[n] EXCEPT !.grad = ZeroBuffer(@), !.data = TZeros(@)]
     ELSE lf[n]]

ZeroGradOf(p, lf) ==
  [n \in DOMAIN lf |->
     IF n \in Range(Parameters(p)) THEN [lf[n] EXCEPT !.grad = ZeroBuffer(@)]
     ELSE lf[n]]

\* a variant of Descend that moves along the gradient
DescendUphill(data, g, lr) == TAdd(data, TScale(g, lr))

\* weight = weight - learning_rate * gradient
Descend(data, g, lr) == TSub(data, TScale(g, lr))

\* a variant of SGDStep that decays the weights as well
SGDStepDecay(p, lf) ==
  [n \in DOMAIN lf |->
     IF n \in Range(Parameters(p)) /\ lf[n].grad # None
       THEN [lf[n] EXCEPT !.data = Descend(@, TAdd(lf[n].grad, @), LearningRate(p))]
       ELSE lf[n]]

\* optim.SGD.step(): parameters without a grad are skipped
SGDStep(p, lf) ==
  [n \in DOMAIN lf |->
     IF n \in Range(Parameters(p)) /\ lf[n].grad # None
       THEN [lf[n] EXCEPT !.data = Descend(@, lf[n].grad, LearningRate(p))]
       ELSE lf[n]]

\* a variant of the manual update that adds the scaled gradient
ManualUpdateAdd(p, lf) ==
  [n \in DOMAIN lf |->
     IF n \in Range(Parameters(p))
       THEN [lf[n] EXCEPT !.data = TAdd(@, TScale(lf[n].grad, LearningRate(p)))]
       ELSE lf[n]]

\* manual update: for param in parameters(): param.data -= lr * param.grad.data
ManualUpdate(p, lf) ==
  [n \in DOMAIN lf |->
     IF n \in Range(Parameters(p))
       THEN [lf[n] EXCEPT !.data = Descend(@, lf[n].grad, LearningRate(p))]
       ELSE lf[n]]

\* optim.Adam keeps, for every parameter, a running average of its
\* gradients (exp_avg, coefficient Beta1) and moves the parameter against
\* it.  The model keeps the average exactly and the direction of the move;
\* the length of the move is taken as the learning rate.
Beta1 == <<9, 10>>

Sign(a) == IF a[1] > 0 THEN R(1) ELSE IF a[1] < 0 THEN R(-1) ELSE R(0)

ExpAvg(m, g) ==
  [i \in 1..Len(m) |-> RAdd(RMul(Beta1, m[i]), RMul(RSub(R(1), Beta1), g[i]))]

AdamMove(data, m, lr) ==
  [i \in 1..Len(data) |-> RSub(data[i], RMul(lr, Sign(m[i])))]

\* optim.Adam.step(): parameters without a grad are skipped
AdamAvg(p, lf, op) ==
  [n \in DOMAIN op |-> IF lf[n].grad # None THEN ExpAvg(op[n], lf[n].grad) ELSE op[n]]

AdamStep(p, lf, op) ==
  [n \in DOMAIN lf |->
     IF n \in Range(Parameters(p)) /\ lf[n].grad # None
       THEN [lf[n] EXCEPT !.data = AdamMove(@, AdamAvg(p, lf, op)[n], LearningRate(p))]
       ELSE lf[n]]

UsesAdam(p) == p \in {"nn_adam", "cnn_adam"}

UsesOptimizer(p) == p \in {"nn_adam", "nn_twolayer", "nn_dynamic", "cnn_sgd", "cnn_adam"}

UpdateOf(p, lf, op) ==
  IF UsesAdam(p) THEN AdamStep(p, lf, op)
  ELSE IF UsesOptimizer(p) THEN SGDStep(p, lf)
  ELSE ManualUpdate(p, lf)

OptOf(p, lf, op) == IF UsesAdam(p) THEN AdamAvg(p, lf, op) ELSE op

\* the optimizer's state at construction
InitOpt(p, lf) ==
  IF UsesAdam(p) THEN [n \in Range(Parameters(p)) |-> TZeros(lf[n].data)] ELSE <<>>

AllGradsExist(p, lf) == \A n \in Range(Parameters(p)) : lf[n].grad # None

\* ------------------------------------------------------------------------
\* Initial data: the notebooks draw it at random; the model draws it from
\* small sets
\* ------------------------------------------------------------------------
WeightVals(p, n) ==
  IF p \in Convnets THEN {R(1)}
  ELSE IF p = "nn_dynamic" /\ n # "middle_linear.weight" THEN {R(1)}
  ELSE {R(1), R(-1)}

BiasVals == {R(0)}

InputVals(p) == IF p \in {"autograd", "myrelu"} THEN {R(1000)} ELSE {R(1)}

TargetVals(p) ==
  IF p \in {"autograd", "myrelu"} THEN {R(1500)}
  ELSE IF p = "cnn_adam" THEN {R(1)}
  ELSE {R(2)}

NElem == 4

GradientsXVals == {Fill(NElem, R(1)), <<R(1), R(2), R(0), R(-1)>>}

\* "Operations with pytorch": x = torch.Tensor(5, 3) and result =
\* torch.Tensor(5, 3) hold whatever the memory held, y = torch.rand(5, 3)
\* lies in [0, 1); out is not assigned before the first addition
Rows == 5

Cols == 3

Pattern(a, b, c) ==
  [i \in 1..(Rows * Cols) |-> IF i % 3 = 1 THEN a ELSE IF i % 3 = 2 THEN b ELSE c]

UninitializedVals ==
  {Fill(Rows * Cols, R(0)), Fill(Rows * Cols, R(1)), Pattern(R(-1), R(0), R(2))}

RandVals == {Fill(Rows * Cols, <<1, 2>>), Pattern(R(0), <<1, 2>>, <<1, 4>>)}

InitLeaves(p) ==
  IF p = "gradients"
    THEN {[n \in {"x"} |-> Variable(xs, TRUE)] : xs \in GradientsXVals}
  ELSE IF p = "operations"
    THEN {[n \in {"x", "y", "result", "out"} |->
             IF n = "x" THEN Variable(xv, FALSE)
             ELSE IF n = "y" THEN Variable(yv, FALSE)
             ELSE IF n = "result" THEN Variable(rv, FALSE)
             ELSE Variable(None, FALSE)] :
           xv \in UninitializedVals, yv \in RandVals, rv \in UninitializedVals}
    ELSE {[n \in Range(Parameters(p)) \cup {"x", "y"} |->
             IF n = "x" THEN Variable(<<xv>>, FALSE)
             ELSE IF n = "y" THEN Variable(<<yv>>, FALSE)
             ELSE Variable(<<pv[n]>>, TRUE)] :
           xv \in InputVals(p), yv \in TargetVals(p),
           pv \in {f \in [Range(Parameters(p)) -> {R(1), R(-1)} \cup BiasVals] :
                     \A n \in Range(Parameters(p)) :
                       f[n] \in (IF IsBias(n) THEN BiasVals ELSE WeightVals(p, n))}}

\* history kept for the properties: counts of calls, the statements of the
\* current loop iteration, and snapshots taken when a call happens
Hist0 ==
  [nback |-> 0, nstep |-> 0, since |-> 0, clean |-> TRUE, g1 |-> <<>>,
   k |-> 0, k1 |-> 0, ev |-> <<>>, last |-> "init", zeroed |-> FALSE,
   before |-> 0, pre |-> <<>>, fresh |-> <<>>, explicit |-> <<>>, seed |-> <<>>,
   noarg |-> TRUE, fw |-> [k |-> 0, data |-> <<>>, tape |-> <<>>],
   rep |-> [valid |-> FALSE, k |-> 0, same |-> TRUE],
   dpre |-> <<>>, kicked |-> FALSE, wask |-> FALSE, reached |-> {},
   losses |-> <<>>, leaf0 |-> <<>>, ks |-> <<>>]

Init ==
  /\ nb \in Programs
  /\ leaf \in InitLeaves(nb)
  /\ opt = InitOpt(nb, leaf)
  /\ tape = <<>>
  /\ root = None
  /\ pc \in (IF LoopBody(nb) = <<>> THEN {"cells"} ELSE {"cells", LoopBody(nb)[1]})
  /\ iter = 0
  /\ hist = [Hist0 EXCEPT !.leaf0 = IF pc = "cells" THEN <<>> ELSE leaf]

\* ------------------------------------------------------------------------
\* Control: a statement runs when the loop is at it, or at any time when the
\* notebook's statements are run one by one ("cells")
\* ------------------------------------------------------------------------
At(stmt) == pc = "cells" \/ pc = stmt

IndexOf(body, stmt) == CHOOSE i \in 1..Len(body) : body[i] = stmt

\* the loop position and iteration count after running stmt
Advance(stmt) ==
  IF pc = "cells" THEN /\ pc' = pc
                       /\ iter' = iter
  ELSE LET body == LoopBody(nb)
           i == IndexOf(body, stmt)
       IN IF i < Len(body)
            THEN /\ pc' = body[i + 1]
                 /\ iter' = iter
            ELSE /\ iter' = iter + 1
                 /\ pc' = IF iter + 1 >= MaxIter THEN "done" ELSE body[1]

Grads(p, lf) == [n \in Range(Parameters(p)) |-> lf[n].grad]

ParamData(p, lf) == [n \in Range(Parameters(p)) |-> lf[n].data]

AllData(lf) == [n \in DOMAIN lf |-> lf[n].data]

\* values the exact arithmetic can carry through one more forward pass
Depth(p, k) == IF p = "nn_dynamic" THEN k + 2 ELSE 2

Fits(p, lf, k) ==
  \A n \in Range(Parameters(p)) :
    \A i \in 1..Len(lf[n].data) :
      LET d == lf[n].data[i]
      IN /\ Abs(d[1]) <= MaxAbs * d[2]
         /\ IF d[2] = 1 THEN TRUE
            ELSE d[2] <= MaxDen /\ Depth(p, k) = 2 /\ p # "gradients"

\* the history after stmt: the snapshots of the previous call are dropped
Record(stmt) ==
  [hist EXCEPT !.ev = IF pc = "cells" THEN <<>>
                      ELSE IF stmt = LoopBody(nb)[1] THEN <<stmt>>
                      ELSE Append(@, stmt),
               !.last = stmt,
               !.pre = Hist0.pre, !.dpre = Hist0.dpre, !.wask = Hist0.wask,
               !.fresh = Hist0.fresh, !.explicit = Hist0.explicit,
               !.seed = Hist0.seed, !.noarg = Hist0.noarg, !.rep = Hist0.rep,
               !.reached = Hist0.reached]

\* what a forward call leaves in the history: its draw, the data it read,
\* the graph it built, and how that graph compares with the previous call's
\* when the data are the same
ForwardRecord(k, lf, tp) ==
  [Record("forward") EXCEPT
     !.k = k,
     !.ks = IF pc = "cells" THEN @ ELSE Append(@, k),
     !.fw = [k |-> k, data |-> AllData(lf), tape |-> tp],
     !.rep = IF hist.fw.tape = <<>> THEN [valid |-> FALSE, k |-> 0, same |-> TRUE]
             ELSE IF hist.fw.data = AllData(lf)
               THEN [valid |-> TRUE, k |-> hist.fw.k, same |-> hist.fw.tape = tp]
               ELSE [valid |-> FALSE, k |-> 0, same |-> TRUE]]

\* ------------------------------------------------------------------------
\* Actions
\* ------------------------------------------------------------------------
\* a variant of KChoices in which DynamicNet may draw 4
KChoicesWide(p) ==
  IF p = "nn_dynamic" THEN 0..4 ELSE IF p = "cnn_adam" THEN {0, 1, 2} ELSE {0}

KChoices(p) ==
  IF p = "nn_dynamic" THEN 0..3 ELSE IF p = "cnn_adam" THEN {0, 1, 2} ELSE {0}

\* y_pred = model(x)   /   y = x + 2
Forward ==
  /\ At("forward")
  /\ pc # "done"
  /\ nb # "operations"
  /\ \E k \in KChoices(nb) :
       /\ Fits(nb, leaf, k)
       /\ tape' = ForwardPass(nb, leaf, k)
       /\ hist' = ForwardRecord(k, leaf, tape')
  /\ root' = Last(tape')
  /\ Advance("forward")
  /\ UNCHANGED <<nb, leaf, opt>>

\* loss = criterion(y_pred, y)   /   z = y * y * 3; out = z.mean()
Loss ==
  /\ At("loss")
  /\ tape # <<>>
  /\ ~HasLoss(tape)
  /\ tape' = LossPass(nb, tape, leaf)
  /\ root' = Last(tape')
  /\ hist' = [Record("loss") EXCEPT
                !.losses = IF pc = "cells" THEN @
                           ELSE Append(@, Val(tape', leaf, root')[1])]
  /\ Advance("loss")
  /\ UNCHANGED <<nb, leaf, opt>>

\* model.zero_grad() / optimizer.zero_grad() / w.grad.data.zero_()
ZeroGrad ==
  /\ At("zero_grad")
  /\ nb \notin {"gradients", "operations"}
  /\ IF nb \in {"autograd", "myrelu"} THEN AllGradsExist(nb, leaf) ELSE TRUE
  /\ leaf' = ZeroGradOf(nb, leaf)
  /\ hist' = [Record("zero_grad") EXCEPT
                !.since = 0, !.clean = TRUE, !.g1 = <<>>, !.zeroed = TRUE,
                !.before = hist.nback, !.pre = Grads(nb, leaf)]
  /\ Advance("zero_grad")
  /\ UNCHANGED <<nb, opt, tape, root>>

FreshLeaves(lf) == [n \in DOMAIN lf |-> [lf[n] EXCEPT !.grad = None]]

AfterBackward(seed, lf2) ==
  [Record("backward") EXCEPT
     !.nback = @ + 1,
     !.since = @ + 1,
     !.g1 = IF hist.since = 0 THEN Grads(nb, lf2)
            ELSE IF hist.since = 1 THEN @ ELSE <<>>,
     !.k1 = IF hist.since = 0 THEN hist.k ELSE @,
     !.clean = @ /\ (hist.since = 0 \/ hist.k = hist.k1),
     !.fresh = Grads(nb, Backward(tape, FreshLeaves(leaf), root, seed)),
     !.explicit = Grads(nb, Backward(tape, leaf, root, <<R(1)>>)),
     !.seed = seed,
     !.noarg = TRUE,
     !.reached = AncestorLeaves(tape, root)]

\* loss.backward()   /   out.backward()
BackwardCall ==
  /\ At("backward")
  /\ HasLoss(tape)
  /\ pc = "cells" => hist.nback < MaxBack
  /\ leaf' = Backward(tape, leaf, root, DefaultSeed(tape, leaf, root))
  /\ hist' = AfterBackward(DefaultSeed(tape, leaf, root), leaf')
  /\ tape' = <<>>
  /\ root' = None
  /\ Advance("backward")
  /\ UNCHANGED <<nb, opt>>

SeedVals == {<<R(1)>>, <<R(2)>>}

\* out.backward(torch.Tensor([1.0])): an explicit output gradient
BackwardWith ==
  /\ pc = "cells"
  /\ nb \in {"gradients", "cnn_sgd"}
  /\ tape # <<>>
  /\ HasLoss(tape) = (nb = "gradients")
  /\ hist.nback < MaxBack
  /\ \E seed \in SeedVals :
       /\ leaf' = Backward(tape, leaf, root, seed)
       /\ hist' = [AfterBackward(seed, leaf') EXCEPT !.clean = FALSE, !.noarg = FALSE]
  /\ tape' = <<>>
  /\ root' = None
  /\ UNCHANGED <<nb, opt, pc, iter>>

HasNonZero(gs) == \E n \in DOMAIN gs : gs[n] # None /\ ~IsZeros(gs[n])

\* optimizer.step()   /   the hand-written gradient-descent update
Step ==
  /\ At("step")
  /\ nb \notin {"gradients", "operations"}
  /\ tape = <<>>
  /\ pc = "cells" => hist.nstep < MaxSteps
  /\ IF UsesOptimizer(nb) THEN TRUE ELSE AllGradsExist(nb, leaf)
  /\ leaf' = UpdateOf(nb, leaf, opt)
  /\ opt' = OptOf(nb, leaf, opt)
  /\ hist' = [Record("step") EXCEPT
                !.nstep = @ + 1,
                !.clean = @ /\ hist.since = 0,
                !.pre = Grads(nb, leaf),
                !.dpre = ParamData(nb, leaf),
                !.wask = hist.kicked,
                !.kicked = @ \/ HasNonZero(Grads(nb, leaf)),
                !.fw = IF ParamData(nb, leaf') = ParamData(nb, leaf) THEN @ ELSE Hist0.fw]
  /\ Advance("step")
  /\ UNCHANGED <<nb, tape, root>>

\* a variant of TorchAdd that writes the sum into its first operand as well
TorchAddInPlace(lf, a, b, dst) ==
  [lf EXCEPT ![a].data = TAdd(lf[a].data, lf[b].data),
             ![dst].data = TAdd(lf[a].data, lf[b].data)]

\* the element-wise sum of the tensors a and b, stored in dst
TorchAdd(lf, a, b, dst) ==
  [lf EXCEPT ![dst].data = TAdd(lf[a].data, lf[b].data)]

AddSyntax == {"x + y", "torch.add(x, y)"}

\* out = x + y   /   out = torch.add(x, y)
Add ==
  /\ nb = "operations"
  /\ \E form \in AddSyntax :
       hist' = [Record(form) EXCEPT !.dpre = AllData(leaf)]
  /\ leaf' = TorchAdd(leaf, "x", "y", "out")
  /\ UNCHANGED <<nb, opt, tape, root, pc, iter>>

\* torch.add(x, y, out=result)
AddOut ==
  /\ nb = "operations"
  /\ leaf' = TorchAdd(leaf, "x", "y", "result")
  /\ hist' = [Record("torch.add(x, y, out=result)") EXCEPT !.dpre = AllData(leaf)]
  /\ UNCHANGED <<nb, opt, tape, root, pc, iter>>

\* y.add_(x)
AddInPlace ==
  /\ nb = "operations"
  /\ \A i \in 1..Len(leaf["y"].data) :
       Abs(leaf["y"].data[i][1]) <= MaxAbs * leaf["y"].data[i][2]
  /\ leaf' = TorchAdd(leaf, "y", "x", "y")
  /\ hist' = [Record("y.add_(x)") EXCEPT !.dpre = AllData(leaf)]
  /\ UNCHANGED <<nb, opt, tape, root, pc, iter>>

Next ==
  \/ Forward \/ Loss \/ ZeroGrad \/ BackwardCall \/ BackwardWith \/ Step
  \/ Add \/ AddOut \/ AddInPlace

Spec == Init /\ [][Next]_vars

\* ------------------------------------------------------------------------
\* Properties
\* ------------------------------------------------------------------------
IsPrefix(s, t) == Len(s) <= Len(t) /\ \A i \in 1..Len(s) : s[i] = t[i]

Count(s, x) == Cardinality({i \in 1..Len(s) : s[i] = x})

Twice(g) == IF g = None THEN None ELSE TScale(g, R(2))

\* two backward() calls on the same computation with nothing in between
\* that clears the buffers, moves the parameters or changes the draw
SecondOfTwo == hist.last = "backward" /\ hist.since = 2 /\ hist.clean

\* C1: for a fixed input and fixed parameters, after two backward() calls on
\* the same computation without a zero_grad() in between, every
\* parameter's grad is exactly twice the grad a single call leaves.
C1_AccumulationAdditive ==
  SecondOfTwo =>
    \A n \in Range(Parameters(nb)) : leaf[n].grad = Twice(hist.g1[n])

C1_Witness == SecondOfTwo /\ HasNonZero(hist.g1)

\* the statements of a loop iteration other than the clearing of the grads
Core(ev) == SelectSeq(ev, LAMBDA st : st # "zero_grad")

InLoop == pc # "cells"

\* C2 as stated: in every training loop an iteration runs forward, loss,
\* zero_grad, backward, step in exactly this order.
C2_StrictOrder ==
  InLoop => IsPrefix(hist.ev, <<"forward", "loss", "zero_grad", "backward", "step">>)

\* C2: in every training loop an iteration runs forward, loss, backward,
\* step in this order and clears the gradients exactly once, before the
\* forward pass, between loss and backward, or after the step, never
\* between backward and step; so every backward starts from cleared (or
\* never written) buffers and every step follows its iteration's backward.
C2_IterationOrder ==
  InLoop =>
    /\ IsPrefix(Core(hist.ev), <<"forward", "loss", "backward", "step">>)
    /\ Count(hist.ev, "zero_grad") <= 1
    /\ Len(hist.ev) = Len(LoopBody(nb)) => Count(hist.ev, "zero_grad") = 1
    /\ \A i \in 2..Len(hist.ev) :
         hist.ev[i] = "zero_grad" => hist.ev[i - 1] # "backward"
    /\ hist.last = "backward" => hist.since = 1

C2_Witness ==
  /\ InLoop
  /\ iter >= 1
  /\ hist.last = "backward"
  /\ hist.ev = <<"forward", "loss", "backward">>

\* the first backward() after a zero_grad()
FirstAfterZero == hist.last = "backward" /\ hist.since = 1 /\ hist.zeroed

\* C3 as stated: after zero_grad() then one backward() every parameter's
\* grad equals the grad one backward() leaves in never-used parameters.
C3_SameAsFresh == FirstAfterZero => Grads(nb, leaf) = hist.fresh

\* C3: after zero_grad() then one backward(), every parameter the pass
\* reaches has the grad one backward() leaves in never-used parameters with
\* the same data, whatever backward() calls came before; a parameter the
\* pass does not reach holds zeros (or None) where the fresh one has None.
C3_ReachedSameAsFresh ==
  FirstAfterZero =>
    \A n \in Range(Parameters(nb)) :
      IF hist.fresh[n] = None
        THEN leaf[n].grad = None \/ IsZeros(leaf[n].grad)
        ELSE leaf[n].grad = hist.fresh[n]

C3_Witness ==
  /\ FirstAfterZero
  /\ hist.before >= 1
  /\ HasNonZero(hist.fresh)
  /\ \E n \in Range(Parameters(nb)) : hist.fresh[n] = None /\ leaf[n].grad # None

AfterZeroGrad == hist.last = "zero_grad" /\ nb \notin {"autograd", "myrelu"}

\* C4 as stated: after zero_grad() every parameter's grad is all zeros,
\* whether or not a backward() was ever run before.
C4_AllZeros ==
  AfterZeroGrad =>
    \A n \in Range(Parameters(nb)) : leaf[n].grad # None /\ IsZeros(leaf[n].grad)

\* C4: after zero_grad() every parameter that had a gradient buffer has
\* one of the same shape that is all zeros, and every parameter whose grad
\* was None (no backward() reached it yet) still has grad None.
C4_ZerosWhereComputed ==
  AfterZeroGrad =>
    \A n \in Range(Parameters(nb)) :
      IF hist.pre[n] = None
        THEN leaf[n].grad = None
        ELSE /\ leaf[n].grad # None
             /\ Len(leaf[n].grad) = Len(hist.pre[n])
             /\ IsZeros(leaf[n].grad)

C4_Witness ==
  /\ AfterZeroGrad
  /\ HasNonZero(hist.pre)
  /\ \E n \in Range(Parameters(nb)) : hist.pre[n] = None

\* step() of an optimizer called when no parameter has a non-zero gradient
ZeroGradStep == hist.last = "step" /\ UsesOptimizer(nb) /\ ~HasNonZero(hist.pre)

\* C5 as stated: step() with all-zero gradients changes no parameter, for
\* SGD and Adam, after any number of earlier non-zero steps.
C5_NoOpStep == ZeroGradStep => ParamData(nb, leaf) = hist.dpre

\* C5: step() with all-zero gradients changes no parameter and raises no
\* error for optim.SGD after any number of earlier non-zero steps, and for
\* optim.Adam as long as no earlier step saw a non-zero gradient.
C5_NoOpStepSGD ==
  (ZeroGradStep /\ (UsesAdam(nb) => ~hist.wask)) => ParamData(nb, leaf) = hist.dpre

C5_Witness ==
  /\ ZeroGradStep
  /\ ~UsesAdam(nb)
  /\ hist.wask
  /\ \A n \in Range(Parameters(nb)) : hist.pre[n] # None

\* C6 as stated: two forward calls with the same input and the same
\* parameter data return the same output and build the same graph.
C6_ForwardPure == hist.rep.valid => hist.rep.same

\* C6: two forward calls with the same input, the same parameter data and
\* the same random draw (DynamicNet's randint, Network's dropout mask)
\* return the same output and build the same graph.
C6_ForwardPureGivenDraw ==
  (hist.rep.valid /\ hist.rep.k = hist.k) => hist.rep.same

C6_Witness ==
  /\ hist.last = "forward"
  /\ hist.rep.valid
  /\ hist.rep.k = hist.k
  /\ nb = "nn_dynamic"
  /\ hist.k >= 1
  /\ hist.nback >= 1

\* DynamicNet differentiated by hand, one application of a layer at a time,
\* as the Tensors notebook differentiates its two-layer network:
\*   PreAct(lf, j)     input of the j-th ReLU (j = 0 after input_linear)
\*   GradYPred(lf, k)  2 * (y_pred - y)
\*   GradHRelu(lf, k, j)  gradient of the loss for the j-th ReLU's output
\*   GradH(lf, k, j)   the same for its input: zero where the input is < 0
Entry(lf, n) == lf[n].data[1]

RECURSIVE PreAct(_, _)
PreAct(lf, j) ==
  IF j = 0
    THEN RAdd(Entry(lf, "input_linear.bias"),
              RMul(Entry(lf, "x"), Entry(lf, "input_linear.weight")))
    ELSE RAdd(Entry(lf, "middle_linear.bias"),
              RMul(RMax0(PreAct(lf, j - 1)), Entry(lf, "middle_linear.weight")))

YPred(lf, k) ==
  RAdd(Entry(lf, "output_linear.bias"),
       RMul(RMax0(PreAct(lf, k)), Entry(lf, "output_linear.weight")))

GradYPred(lf, k) == RMul(R(2), RSub(YPred(lf, k), Entry(lf, "y")))

RECURSIVE GradHRelu(_, _, _)
RECURSIVE GradH(_, _, _)
GradHRelu(lf, k, j) ==
  IF j = k THEN RMul(GradYPred(lf, k), Entry(lf, "output_linear.weight"))
  ELSE RMul(GradH(lf, k, j + 1), Entry(lf, "middle_linear.weight"))

GradH(lf, k, j) == IF PreAct(lf, j)[1] < 0 THEN R(0) ELSE GradHRelu(lf, k, j)

\* what the j-th application of middle_linear contributes to its weight
MiddleContribution(lf, k, j) == RMul(GradH(lf, k, j), RMax0(PreAct(lf, j - 1)))

RECURSIVE SumOfContributions(_, _, _)
SumOfContributions(lf, k, j) ==
  IF j > k THEN R(0)
  ELSE RAdd(MiddleContribution(lf, k, j), SumOfContributions(lf, k, j + 1))

\* the first backward() into empty or cleared buffers
FirstBackward == hist.last = "backward" /\ hist.since = 1 /\ hist.noarg

\* what one of the two inputs of y * y receives from out = mean(y * y * 3)
PerConsumer(x) == RMul(<<3, NElem>>, RAdd(x, R(2)))

\* C7: a Node that is an input of several Operations ends with the sum of
\* its consumers' gradients: x.grad behind y in y * y * 3 is the sum of the
\* two inputs' gradients, and middle_linear.weight.grad is the sum over
\* the applications of the layer in the forward pass.
C7_SumOverConsumers ==
  FirstBackward =>
    /\ nb = "gradients" =>
         \A i \in 1..NElem :
           leaf["x"].grad[i] =
             RAdd(PerConsumer(leaf["x"].data[i]), PerConsumer(leaf["x"].data[i]))
    /\ (nb = "nn_dynamic" /\ hist.k >= 1) =>
         leaf["middle_linear.weight"].grad = <<SumOfContributions(leaf, hist.k, 1)>>

C7_Witness ==
  /\ FirstBackward
  /\ nb = "nn_dynamic"
  /\ hist.k >= 2
  /\ \A j \in 1..hist.k : MiddleContribution(leaf, hist.k, j) # R(0)

C7_WitnessShared ==
  FirstBackward /\ nb = "gradients" /\ leaf["x"].grad # TZeros(leaf["x"].grad)

\* the session of the Gradients notebook: x is a 2x2 tensor of ones
OnesSession == nb = "gradients" /\ leaf["x"].data = Fill(NElem, R(1))

\* C9: for x a 2x2 tensor of ones, y = x + 2, z = y * y * 3 and
\* out = z.mean(): z is 27 everywhere, out is 27, and after one
\* out.backward() x.grad is 9/2 in each of the four entries.
C9_Scenario ==
  OnesSession =>
    /\ HasLoss(tape) =>
         /\ tape[3].fn = "MulConst" /\ tape[3].out = Fill(NElem, R(27))
         /\ tape[4].fn = "Mean" /\ tape[4].out = <<R(27)>>
    /\ (FirstBackward /\ hist.nback = 1) => leaf["x"].grad = Fill(NElem, <<9, 2>>)

C9_Witness == OnesSession /\ FirstBackward /\ hist.nback = 1

C9_WitnessForward == OnesSession /\ HasLoss(tape)

\* C10: on a one-element root, backward() without argument leaves in
\* every leaf the grad that backward(1.0) leaves.
C10_DefaultSeedIsOne ==
  (hist.last = "backward" /\ hist.noarg) => Grads(nb, leaf) = hist.explicit

C10_Witness ==
  hist.last = "backward" /\ hist.noarg /\ HasNonZero(Grads(nb, leaf)) /\ hist.since = 2

Nodes == {LeafRef(n) : n \in DOMAIN leaf} \cup {OpRef(i) : i \in 1..Len(tape)}

\* C14: grad_fn is None exactly when the Node is a user-created leaf, and
\* every Node returned by an operation on a gradient-requiring Node has a
\* non-None grad_fn.
C14_GradFnNoneIffLeaf ==
  /\ \A r \in Nodes : GradFn(tape, r) = None <=> r[1] = "leaf"
  /\ \A i \in 1..Len(tape) :
       (\E j \in 1..Len(tape[i].in) : NeedsGrad(tape, leaf, tape[i].in[j]))
         => GradFn(tape, OpRef(i)) # None

C14_Witness ==
  /\ nb = "gradients"
  /\ Len(tape) = 1
  /\ GradFn(tape, LeafRef("x")) = None
  /\ GradFn(tape, OpRef(1)) = <<"AddConst", "Backward">>

\* C15: the graph is acyclic in every reachable state (an operation's inputs
\* are leaves or results recorded before it), and each forward call builds
\* a fresh graph: every operation of the graph is an ancestor of the
\* current root, so no operation of an earlier call is kept in it, and the
\* only Nodes it shares with earlier calls are the leaves.
C15_FreshAcyclicGraph ==
  /\ \A i \in 1..Len(tape) : \A j \in 1..Len(tape[i].in) :
       LET r == tape[i].in[j]
       IN IF r[1] = "leaf" THEN r[2] \in DOMAIN leaf
          ELSE r[2] \in 1..(i - 1)
  /\ tape # <<>> => AncestorOps(tape, root) = 1..Len(tape)

C15_Witness ==
  /\ hist.last = "forward"
  /\ hist.nback >= 1
  /\ Len(tape) >= 3
  /\ \E n \in DOMAIN leaf : leaf[n].grad # None /\ n \in AncestorLeaves(tape, root)

C17_DataChangedOnlyByStep ==
  [][/\ hist'.last \in {"forward", "loss", "zero_grad", "backward"}
          => AllData(leaf') = AllData(leaf)
     /\ hist'.last = "step"
          => \A n \in DOMAIN leaf \ Range(Parameters(nb)) :
               leaf'[n].data = leaf[n].data]_vars

C17_Witness ==
  /\ hist.last = "step"
  /\ hist.nback >= 1
  /\ ParamData(nb, leaf) # hist.dpre
  /\ DOMAIN leaf \ Range(Parameters(nb)) # {}

\* the leaves as they were when the last step() was called: the step
\* leaves the grads alone, so only the parameters' data is put back
BeforeStep ==
  [n \in DOMAIN leaf |->
     IF n \in Range(Parameters(nb)) THEN [leaf[n] EXCEPT !.data = hist.dpre[n]]
     ELSE leaf[n]]

GradientStep ==
  /\ hist.last = "step"
  /\ ~UsesAdam(nb)
  /\ \A n \in Range(Parameters(nb)) : hist.pre[n] # None

\* C19: after a gradient-descent step, every parameter is its value before
\* the step minus the learning rate times its gradient, and the manual
\* update loop and optim.SGD's step(), given the same learning rate and the
\* same gradients, both leave exactly this state.
C19_ManualEqualsSGD ==
  GradientStep =>
    /\ Grads(nb, leaf) = hist.pre
    /\ \A n \in Range(Parameters(nb)) : \A i \in 1..Len(leaf[n].data) :
         leaf[n].data[i] =
           RSub(hist.dpre[n][i], RMul(LearningRate(nb), hist.pre[n][i]))
    /\ leaf = ManualUpdate(nb, BeforeStep)
    /\ leaf = SGDStep(nb, BeforeStep)

C19_Witness ==
  /\ GradientStep
  /\ nb = "cnn_sgd"
  /\ HasNonZero(hist.pre)
  /\ ParamData(nb, leaf) # hist.dpre

Sum(a, b) == [i \in 1..Len(a) |-> RAdd(a[i], b[i])]

Untouched(names) == \A n \in names : leaf[n].data = hist.dpre[n]

OutOf(lf) ==
  LET tp == LossPass("gradients", ForwardPass("gradients", lf, 0), lf)
  IN Val(tp, lf, Last(tp))[1]

Nudge(lf, i, h) == [lf EXCEPT !["x"].data[i] = RAdd(@, h)]

FDStep == <<1, 100>>

Tolerance == <<1, 10000>>

\* the central finite difference of out with respect to x[i]
FiniteDifference(lf, i) ==
  RMul(RSub(OutOf(Nudge(lf, i, FDStep)), OutOf(Nudge(lf, i, RNeg(FDStep)))),
       <<FDStep[2], 2 * FDStep[1]>>)

RLeq(a, b) == a[1] * b[2] <= b[1] * a[2]

RAbs(a) == <<Abs(a[1]), a[2]>>

FirstPlainBackward ==
  /\ nb = "gradients"
  /\ hist.last = "backward"
  /\ hist.nback = 1
  /\ hist.noarg

\* C21: for the computation built from addition and multiplication
\* (out = mean(3 * (x + 2) * (x + 2))), the gradient backward() leaves on the
\* leaf x differs from the finite-difference approximation of d(out)/dx[i]
\* by at most 1e-4, for every entry i.
C21_MatchesFiniteDifference ==
  FirstPlainBackward =>
    \A i \in 1..Len(leaf["x"].data) :
      RLeq(RAbs(RSub(leaf["x"].grad[i], FiniteDifference(leaf, i))), Tolerance)

C21_Witness ==
  /\ FirstPlainBackward
  /\ leaf["x"].grad # None
  /\ \E i, j \in 1..Len(leaf["x"].data) : leaf["x"].grad[i] # leaf["x"].grad[j]
  /\ FiniteDifference(leaf, 1) = <<9, 2>>

RLess(a, b) == a[1] * b[2] < b[1] * a[2]

RunStatement(p, stmt, k, run) ==
  CASE stmt = "forward" ->
         [run EXCEPT !.tp = ForwardPass(p, run.lf, k)]
    [] stmt = "loss" ->
         [run EXCEPT !.tp = LossPass(p, run.tp, run.lf)]
    [] stmt = "zero_grad" ->
         [run EXCEPT !.lf = ZeroGradOf(p, run.lf)]
    [] stmt = "backward" ->
         LET r == Last(run.tp)
             seed == DefaultSeed(run.tp, run.lf, r)
         IN [run EXCEPT
               !.lf = Backward(run.tp, run.lf, r, seed),
               !.own = Grads(p, Backward(run.tp, FreshLeaves(run.lf), r, seed)),
               !.tp = <<>>]
    [] stmt = "step" ->
         [run EXCEPT
            !.lf = UpdateOf(p, run.lf, run.op),
            !.op = OptOf(p, run.lf, run.op),
            !.one = @ /\ \A n \in Range(Parameters(p)) :
                           run.lf[n].grad = run.own[n]
                             \/ (run.own[n] = None /\ IsZeros(run.lf[n].grad))]

RECURSIVE RunBody(_, _, _, _, _)
RunBody(p, body, j, k, run) ==
  IF j > Len(body) THEN run
  ELSE RunBody(p, body, j + 1, k, RunStatement(p, body[j], k, run))

\* n iterations of the loop body, iteration i drawing ks[i]
RECURSIVE RunIters(_, _, _, _, _)
RunIters(p, body, ks, n, run) ==
  IF n = 0 THEN run
  ELSE RunBody(p, body, 1, ks[n], RunIters(p, body, ks, n - 1, run))

RunFrom(p, body, lf, ks, n) ==
  RunIters(p, body, ks, n,
           [lf |-> lf, op |-> InitOpt(p, lf), tp |-> <<>>, own |-> <<>>,
            one |-> TRUE])

\* the three orderings of the repository's loops
Orderings == {LoopBody("nn_manual"), LoopBody("cnn_sgd"), LoopBody("autograd")}

AtIterationEnd ==
  /\ pc # "cells"
  /\ LoopBody(nb) # <<>>
  /\ iter >= 1
  /\ pc \in {LoopBody(nb)[1], "done"}

\* C23: started from the same parameters and run with the same update rule
\* and the same draws, the three loop orderings leave the same parameter
\* values after every iteration, the values the program's own loop has
\* reached, and in each of them every update finds in the gradient buffers
\* exactly one backward pass's gradient.
C23_OrderingsAgree ==
  AtIterationEnd =>
    \A body \in Orderings :
      LET run == RunFrom(nb, body, hist.leaf0, hist.ks, iter)
      IN /\ ParamData(nb, run.lf) = ParamData(nb, leaf)
         /\ run.one

C23_Witness ==
  /\ AtIterationEnd
  /\ iter >= 2
  /\ Cardinality(Orderings) = 3
  /\ ParamData(nb, leaf) # ParamData(nb, hist.leaf0)
  /\ HasNonZero(Grads(nb, leaf))

InAutogradLoop == nb \in {"autograd", "myrelu"} /\ pc # "cells"

\* C24: in the loops that zero the gradients after the update, when the
\* weights are updated w1.grad and w2.grad hold the gradient of the current
\* iteration's loss only (what backward() gives on buffers never used
\* before), and at the end of every iteration both buffers are all zeros.
C24_NothingAccumulates ==
  InAutogradLoop =>
    /\ hist.last = "backward" => Grads(nb, leaf) = hist.fresh
    /\ hist.last = "step" =>
         /\ Grads(nb, leaf) = hist.pre
         /\ \A n \in {"w1", "w2"} : leaf[n].grad # None
    /\ hist.last = "zero_grad" =>
         \A n \in {"w1", "w2"} : leaf[n].grad # None /\ IsZeros(leaf[n].grad)

C24_Witness ==
  /\ InAutogradLoop
  /\ iter = 1
  /\ hist.last = "backward"
  /\ HasNonZero(Grads(nb, leaf))
  /\ leaf["w1"].data # hist.leaf0["w1"].data

\* ------------------------------------------------------------------------
\* MyReLU (torch.autograd.Function) on its own: tensors live in buffers
\* (tape is the memory, a sequence of buffers), names are bound to buffers
\* (leaf maps a name to a buffer's index, 0 while the name is unbound), so
\* that writing through one name is seen through every name bound to the
\* same buffer
\* ------------------------------------------------------------------------
ReLULen == 3

ReLUInputs == [1..ReLULen -> {R(-1), R(0), R(2)}]

ReLUGradOutputs == [1..ReLULen -> {R(1), R(-2)}]

\* a variant of Clone that hands back the same buffer
CloneShared(mem, i) == [mem |-> mem, at |-> i]

\* t.clone(): a new buffer with the same contents
Clone(mem, i) == [mem |-> Append(mem, mem[i]), at |-> Len(mem) + 1]

\* t.clamp(min=0): a new buffer holding max(t, 0)
Clamp(mem, i) ==
  [mem |-> Append(mem, [j \in 1..Len(mem[i]) |-> RMax0(mem[i][j])]),
   at |-> Len(mem) + 1]

\* t[mask < 0] = 0, written into t's buffer
ZeroWhereNegative(mem, t, mask) ==
  [mem EXCEPT ![t] = [j \in 1..Len(@) |->
                        IF mem[mask][j][1] < 0 THEN R(0) ELSE @[j]]]

\* forward(ctx, input): ctx.save_for_backward(input); return input.clamp(min=0)
MyReLU_forward(mem, names) ==
  LET out == Clamp(mem, names["input"])
  IN [mem |-> out.mem,
      names |-> [names EXCEPT !["saved"] = names["input"],
                              !["output"] = out.at]]

\* backward(ctx, grad_output): input, = ctx.saved_tensors;
\* grad_input = grad_output.clone(); grad_input[input < 0] = 0
MyReLU_backward(mem, names) ==
  LET cl == Clone(mem, names["grad_output"])
  IN [mem |-> ZeroWhereNegative(cl.mem, cl.at, names["saved"]),
      names |-> [names EXCEPT !["grad_input"] = cl.at]]

InitMyReLU ==
  /\ nb = "MyReLU"
  /\ \E input \in ReLUInputs, grad_output \in ReLUGradOutputs :
       tape = <<input, grad_output>>
  /\ leaf = [n \in {"input", "grad_output", "saved", "output", "grad_input"} |->
               IF n = "input" THEN 1 ELSE IF n = "grad_output" THEN 2 ELSE 0]
  /\ opt = <<>>
  /\ root = None
  /\ pc = "cells"
  /\ iter = 0
  /\ hist = [last |-> "init", input |-> tape[1], grad_output |-> tape[2]]

\* relu = MyReLU.apply; relu(...)
MyReLUForward ==
  /\ leaf["output"] = 0
  /\ LET call == MyReLU_forward(tape, leaf)
     IN /\ tape' = call.mem
        /\ leaf' = call.names
  /\ hist' = [hist EXCEPT !.last = "forward"]
  /\ UNCHANGED <<nb, opt, root, pc, iter>>

\* the engine calls backward with the gradient of the loss w.r.t. the output
MyReLUBackward ==
  /\ leaf["saved"] # 0
  /\ leaf["grad_input"] = 0
  /\ LET call == MyReLU_backward(tape, leaf)
     IN /\ tape' = call.mem
        /\ leaf' = call.names
  /\ hist' = [hist EXCEPT !.last = "backward"]
  /\ UNCHANGED <<nb, opt, root, pc, iter>>

NextMyReLU == MyReLUForward \/ MyReLUBackward

SpecMyReLU == InitMyReLU /\ [][NextMyReLU]_vars

Bound(name) == tape[leaf[name]]

\* C25: MyReLU.forward returns the elementwise maximum of its input and 0
\* and leaves the input as it was; MyReLU.backward returns grad_output where
\* the saved input is >= 0 and 0 where it is < 0, and leaves grad_output as
\* it was.
C25_MyReLU ==
  /\ Bound("input") = hist.input
  /\ Bound("grad_output") = hist.grad_output
  /\ leaf["output"] # 0 =>
       /\ \A j \in 1..ReLULen :
            Bound("output")[j] =
              IF hist.input[j][1] >= 0 THEN hist.input[j] ELSE R(0)
       /\ Bound("output") = Eval("MyReLU", <<hist.input>>, None)
  /\ leaf["grad_input"] # 0 =>
       /\ \A j \in 1..ReLULen :
            Bound("grad_input")[j] =
              IF hist.input[j][1] >= 0 THEN hist.grad_output[j] ELSE R(0)
       /\ Bound("grad_input") =
            VJP("MyReLU", <<hist.input>>, None, hist.grad_output)[1]

C25_Witness ==
  /\ hist.last = "backward"
  /\ leaf["grad_input"] # 0
  /\ \E j \in 1..ReLULen : hist.input[j] = R(-1)
  /\ \E j \in 1..ReLULen : hist.input[j] = R(0) /\ Bound("grad_input")[j] # R(0)
  /\ Bound("grad_input") # Bound("grad_output")

\* ------------------------------------------------------------------------
\* The two-layer network with the backward pass written by hand
\* (01 - Tensors.ipynb), on the data of the autograd loop
\* ------------------------------------------------------------------------
\* h = x.mm(w1); h_relu = h.clamp(min=0); y_pred = h_relu.mm(w2)
ManualForward(lf) ==
  LET h == TMul(lf["x"].data, lf["w1"].data)
      h_relu == [i \in 1..Len(h) |-> RMax0(h[i])]
  IN [h |-> h, h_relu |-> h_relu, y_pred |-> TMul(h_relu, lf["w2"].data)]

\* grad_y_pred = 2.0 * (y_pred - y); grad_w2 = h_relu.t().mm(grad_y_pred);
\* grad_h_relu = grad_y_pred.mm(w2.t()); grad_h = grad_h_relu.clone();
\* grad_h[h < 0] = 0; grad_w1 = x.t().mm(grad_h)
ManualBackward(lf) ==
  LET fw == ManualForward(lf)
      grad_y_pred == TScale(TSub(fw.y_pred, lf["y"].data), R(2))
      grad_w2 == TMul(fw.h_relu, grad_y_pred)
      grad_h_relu == TMul(grad_y_pred, lf["w2"].data)
      grad_h == [i \in 1..Len(grad_h_relu) |->
                   IF fw.h[i][1] < 0 THEN R(0) ELSE grad_h_relu[i]]
      grad_w1 == TMul(lf["x"].data, grad_h)
  IN [w1 |-> grad_w1, w2 |-> grad_w2]

\* a variant of the iteration that updates w2 before grad_w1 is computed
ManualIterationStale(lf) ==
  LET lf2 == [lf EXCEPT !["w2"].data =
                TSub(@, TScale(ManualBackward(lf).w2, LearningRate("autograd")))]
  IN [lf2 EXCEPT !["w1"].data =
        TSub(@, TScale(ManualBackward(lf2).w1, LearningRate("autograd")))]

\* one iteration: w1 -= lr * grad_w1; w2 -= lr * grad_w2
ManualIteration(lf) ==
  LET g == ManualBackward(lf)
  IN [lf EXCEPT !["w1"].data = TSub(@, TScale(g.w1, LearningRate("autograd"))),
                !["w2"].data = TSub(@, TScale(g.w2, LearningRate("autograd")))]

RECURSIVE ManualLoop(_, _)
ManualLoop(lf, n) == IF n = 0 THEN lf ELSE ManualIteration(ManualLoop(lf, n - 1))

InAutogradRun == nb = "autograd" /\ pc # "cells"

\* C26: in the autograd loop the gradients loss.backward() leaves on w1 and
\* w2 are the ones the hand-written backward pass computes from the same
\* weights, and after every iteration the weights are the ones the manual
\* loop reaches from the same initial data, both gradients being taken at
\* the weights as they were before the update.
C26_ManualEqualsAutograd ==
  InAutogradRun =>
    /\ hist.last = "backward" =>
         /\ leaf["w1"].grad = ManualBackward(leaf).w1
         /\ leaf["w2"].grad = ManualBackward(leaf).w2
    /\ AtIterationEnd =>
         /\ leaf["w1"].data = ManualLoop(hist.leaf0, iter)["w1"].data
         /\ leaf["w2"].data = ManualLoop(hist.leaf0, iter)["w2"].data

C26_Witness ==
  /\ InAutogradRun
  /\ AtIterationEnd
  /\ iter >= 2
  /\ leaf["w1"].data # hist.leaf0["w1"].data
  /\ leaf["w2"].data # hist.leaf0["w2"].data
  /\ ~IsZeros(ManualBackward(hist.leaf0).w1)
  /\ ~IsZeros(ManualBackward(hist.leaf0).w2)

\* the operations of the graph that take the leaf name as an input
UsesOf(tp, name) ==
  {i \in 1..Len(tp) : \E j \in 1..Len(tp[i].in) : tp[i].in[j] = LeafRef(name)}

HiddenLayers(tp) == {i \in 1..Len(tp) : tp[i].fn = "Clamp"}

\* C27: each DynamicNet forward pass applies input_linear once,
\* middle_linear k times with k in 0..3 drawn by the call, all on the same
\* middle_linear parameters, and output_linear once, so it has between 1
\* and 4 hidden layers; after backward middle_linear.weight's gradient is
\* the sum over the k applications, and there is none when k = 0.
C27_DynamicNetLayers ==
  nb = "nn_dynamic" =>
    /\ (tape # <<>> /\ ~HasLoss(tape)) =>
         /\ hist.k \in 0..3
         /\ Cardinality(UsesOf(tape, "input_linear.weight")) = 1
         /\ Cardinality(UsesOf(tape, "middle_linear.weight")) = hist.k
         /\ UsesOf(tape, "middle_linear.bias") = UsesOf(tape, "middle_linear.weight")
         /\ Cardinality(UsesOf(tape, "output_linear.weight")) = 1
         /\ Cardinality(HiddenLayers(tape)) = hist.k + 1
         /\ Cardinality(HiddenLayers(tape)) \in 1..4
    /\ FirstBackward =>
         IF hist.k = 0
           THEN IF hist.nback = 1 THEN leaf["middle_linear.weight"].grad = None
                ELSE IsZeros(leaf["middle_linear.weight"].grad)
           ELSE leaf["middle_linear.weight"].grad =
                  <<SumOfContributions(leaf, hist.k, 1)>>

C27_Witness ==
  /\ nb = "nn_dynamic"
  /\ FirstBackward
  /\ hist.k = 3
  /\ hist.nback = 1
  /\ \A j \in 1..hist.k : MiddleContribution(leaf, hist.k, j) # R(0)
  /\ leaf["middle_linear.weight"].grad # <<MiddleContribution(leaf, hist.k, 1)>>

\* ------------------------------------------------------------------------
\* The shapes in the forward pass of Net (gradients.ipynb) and Network (the
\* CNN notebook): leaf is the shape of x, pc the next layer, hist.batch the
\* batch size N of the input N x 1 x 32 x 32
\* ------------------------------------------------------------------------
MaxBatch == 10

ImageSize == 32

\* a variant of Conv2d that pads the image so that it keeps its size
Conv2dSame(shape, out_channels, kernel_size) ==
  <<shape[1], out_channels, shape[3], shape[4]>>

\* nn.Conv2d(in, out, kernel_size): stride 1, padding 0
Conv2d(shape, out_channels, kernel_size) ==
  <<shape[1], out_channels, shape[3] - kernel_size + 1, shape[4] - kernel_size + 1>>

\* F.max_pool2d(x, 2)
MaxPool2d(shape, window) ==
  <<shape[1], shape[2], shape[3] \div window, shape[4] \div window>>

RECURSIVE Product(_)
Product(size) == IF size = <<>> THEN 1 ELSE Head(size) * Product(Tail(size))

\* _flatten(x): size = x.size()[1:]; the product of its entries
Flatten(shape) == Product(Tail(shape))

\* x.view(-1, features)
View(shape, features) == <<Product(shape) \div features, features>>

\* the layers' constructor arguments
KernelSize(net) == IF net = "Net" THEN 5 ELSE 1

OutChannels(layer) == IF layer = "conv1" THEN 6 ELSE 16

InFeatures(net) == IF net = "Net" THEN 16 * 5 * 5 ELSE OutChannels("conv2") * 8 * 8

InitShapes ==
  /\ nb \in {"Net", "Network"}
  /\ \E n \in 1..MaxBatch :
       /\ leaf = <<n, 1, ImageSize, ImageSize>>
       /\ hist = [batch |-> n, flat |-> 0, last |-> "init"]
  /\ pc = "conv1"
  /\ opt = <<>>
  /\ tape = <<>>
  /\ root = None
  /\ iter = 0

\* self.conv1(x) / self.conv2(x)
Convolve ==
  /\ pc \in {"conv1", "conv2"}
  /\ leaf' = Conv2d(leaf, OutChannels(pc), KernelSize(nb))
  /\ pc' = IF pc = "conv1" THEN "pool1" ELSE "pool2"
  /\ hist' = [hist EXCEPT !.last = pc]
  /\ UNCHANGED <<nb, opt, tape, root, iter>>

\* F.max_pool2d(..., 2); F.relu keeps the shape
Pool ==
  /\ pc \in {"pool1", "pool2"}
  /\ leaf' = MaxPool2d(leaf, 2)
  /\ pc' = IF pc = "pool1" THEN "conv2" ELSE "view"
  /\ hist' = [hist EXCEPT !.last = pc]
  /\ UNCHANGED <<nb, opt, tape, root, iter>>

\* x = x.view(-1, self._flatten(x))
FlattenView ==
  /\ pc = "view"
  /\ Product(leaf) % Flatten(leaf) = 0
  /\ leaf' = View(leaf, Flatten(leaf))
  /\ pc' = "fc1"
  /\ hist' = [hist EXCEPT !.last = pc, !.flat = Flatten(leaf)]
  /\ UNCHANGED <<nb, opt, tape, root, iter>>

\* self.fc1(x): the input's last dimension must be fc1's in_features
FullyConnected ==
  /\ pc = "fc1"
  /\ leaf[2] = InFeatures(nb)
  /\ leaf' = <<leaf[1], 120>>
  /\ pc' = "fc2"
  /\ hist' = [hist EXCEPT !.last = pc]
  /\ UNCHANGED <<nb, opt, tape, root, iter>>

NextShapes == Convolve \/ Pool \/ FlattenView \/ FullyConnected

SpecShapes == InitShapes /\ [][NextShapes]_vars

\* C28: for a batch of N inputs of size 1x32x32 the feature count _flatten
\* returns equals fc1's in_features (400 for Net, 1024 for Network), and
\* x.view(-1, _flatten(x)) has shape N x in_features.
C28_FlattenMatchesFc1 ==
  /\ pc = "view" => Flatten(leaf) = InFeatures(nb)
  /\ hist.last = "view" =>
       /\ hist.flat = InFeatures(nb)
       /\ hist.flat = IF nb = "Net" THEN 400 ELSE 1024
       /\ leaf = <<hist.batch, InFeatures(nb)>>

C28_Witness ==
  /\ hist.last = "fc1"
  /\ hist.batch = MaxBatch
  /\ nb = "Network"
  /\ hist.flat = 1024
  /\ leaf = <<hist.batch, 120>>

\* ---------------------------------------------------------------------
\* The doubling loop of gradients.ipynb:
\*   x = Variable(torch.randn(3), requires_grad=True)
\*   y = x * 2
\*   while y.data.norm() < 1000: y *= 2
\*   y.backward(gradients)
\* A third program over the same variables: leaf holds x, tape the graph
\* of multiplications, root the Variable y names, iter the number of
\* multiplications made so far.

\* the loop's body runs at most this many multiplications in the model
MaxDoublings == 12

\* values an element of torch.randn(3) is drawn from
DoublingVals == {R(0), <<1, 4>>, <<-1, 2>>, R(3), R(-600)}

DoublingInputs == [1..3 -> DoublingVals]

\* gradients = torch.FloatTensor([0.1, 1.0, 0.0001])
Gradients == <<(<<1, 10>>), R(1), (<<1, 10000>>)>>

\* the square of t.norm(), the 2-norm
SquaredNorm(t) == TSum(TMul(t, t))

\* the product of the squared denominators of t's entries from entry i on
RECURSIVE DenProduct(_, _)
DenProduct(t, i) ==
  IF i > Len(t) THEN 1 ELSE t[i][2] * t[i][2] * DenProduct(t, i + 1)

\* the squares of t's entries from entry i on, summed over that common
\* denominator
RECURSIVE ScaledSquares(_, _)
ScaledSquares(t, i) ==
  IF i > Len(t) THEN 0
  ELSE t[i][1] * t[i][1] * (DenProduct(t, 1) \div (t[i][2] * t[i][2]))
       + ScaledSquares(t, i + 1)

\* t.norm() < bound for a non-negative integer bound, in integers:
\* sum of squares < bound^2, both sides times the common denominator
NormBelow(t, bound) == ScaledSquares(t, 1) < bound * bound * DenProduct(t, 1)

\* the squared norm compared with the bound itself
WhileConditionUnsquared(tp, lf, r) ==
  ScaledSquares(Val(tp, lf, r), 1) < 1000 * DenProduct(Val(tp, lf, r), 1)

\* y.data.norm() < 1000
WhileCondition(tp, lf, r) == NormBelow(Val(tp, lf, r), 1000)

\* y.data *= 2: the value doubles and the graph records nothing
MulInPlaceData(tp, lf, r, c) == [tp EXCEPT ![r[2]].out = TScale(@, c)]

\* y *= 2 on a Variable with history: a new node whose input is the old y
MulInPlace(tp, lf, r, c) == Apply(tp, lf, "MulConst", <<r>>, c)

InitDoubling ==
  /\ nb = "doubling"
  /\ \E xv \in DoublingInputs : leaf = [x |-> Variable(xv, TRUE)]
  /\ opt = <<>>
  /\ tape = <<>>
  /\ root = None
  /\ pc = "start"
  /\ iter = 0
  /\ hist = [last |-> "init"]

\* y = x * 2
TimesTwo ==
  /\ pc = "start"
  /\ tape' = Apply(tape, leaf, "MulConst", <<LeafRef("x")>>, R(2))
  /\ root' = Last(tape')
  /\ iter' = 1
  /\ pc' = "while"
  /\ hist' = [hist EXCEPT !.last = "times_two"]
  /\ UNCHANGED <<nb, leaf, opt>>

\* the loop's test passes and its body runs: y *= 2
DoubleInPlace ==
  /\ pc = "while"
  /\ WhileCondition(tape, leaf, root)
  /\ iter < MaxDoublings
  /\ tape' = MulInPlace(tape, leaf, root, R(2))
  /\ root' = Last(tape')
  /\ iter' = iter + 1
  /\ hist' = [hist EXCEPT !.last = "double"]
  /\ UNCHANGED <<nb, leaf, opt, pc>>

\* the loop's test fails: control leaves the loop
ExitLoop ==
  /\ pc = "while"
  /\ ~WhileCondition(tape, leaf, root)
  /\ pc' = "exited"
  /\ hist' = [hist EXCEPT !.last = "exit"]
  /\ UNCHANGED <<nb, leaf, opt, tape, root, iter>>

\* y.backward(gradients)
BackwardGradients ==
  /\ pc = "exited"
  /\ leaf' = Backward(tape, leaf, root, Gradients)
  /\ pc' = "done"
  /\ hist' = [hist EXCEPT !.last = "backward"]
  /\ UNCHANGED <<nb, opt, tape, root, iter>>

NextDoubling == TimesTwo \/ DoubleInPlace \/ ExitLoop \/ BackwardGradients

\* the cell that holds the loop runs to its end once started: the
\* interpreter always takes the next statement
SpecDoubling ==
  /\ InitDoubling
  /\ [][NextDoubling]_vars
  /\ WF_vars(TimesTwo \/ DoubleInPlace \/ ExitLoop)

Exited == pc \in {"exited", "done"}

\* C29: the loop terminates for every initial x whose norm is non-zero,
\* and control leaves it with y's norm at least 1000; for the zero vector
\* the loop never exits.
C29_DoublingTerminates ==
  /\ (nb = "doubling" /\ ~IsZeros(leaf.x.data)) ~> Exited
  /\ [](Exited => ~RLess(SquaredNorm(Val(tape, leaf, root)), R(1000000)))
  /\ [](IsZeros(leaf.x.data) => ~Exited /\ (root # None => IsZeros(Val(tape, leaf, root))))

C29_Witness ==
  /\ pc = "exited"
  /\ iter = 12
  /\ ~IsZeros(leaf.x.data)
  /\ ~RLess(SquaredNorm(Val(tape, leaf, root)), R(1000000))
  /\ RLess(SquaredNorm(tape[iter - 1].out), R(1000000))

\* C30: after n multiplications by 2 (the initial x * 2 included),
\* y.backward(gradients) leaves x.grad = gradients * 2^n elementwise,
\* whatever x is; for gradients (0.1, 1.0, 0.0001) and n = 12 that is
\* (409.6, 4096, 0.4096).
C30_GradIsGradientsTimesPowerOfTwo ==
  /\ pc = "exited" => leaf.x.grad = None
  /\ pc = "done" =>
       /\ \A i \in 1..3 : leaf.x.grad[i] = RMul(Gradients[i], R(2 ^ iter))
       /\ iter = 12 =>
            leaf.x.grad = <<(<<2048, 5>>), (<<4096, 1>>), (<<256, 625>>)>>

C30_Witness ==
  /\ pc = "done"
  /\ iter = 12
  /\ Len(tape) = 12
  /\ leaf.x.grad = <<(<<2048, 5>>), (<<4096, 1>>), (<<256, 625>>)>>

====
